---- MODULE Spec2Model ----
(***************************************************************************)
(* Model of kvenv's Google Secret Manager vault (src/env/google.rs):       *)
(* GoogleVault::to_client, GoogleVault::to_token, the request interceptor, *)
(* Vault::download_prefixed and Vault::download_json.                      *)
(*                                                                         *)
(* Option<T> is a sequence of length 0 (None) or 1 (Some(x)).              *)
(* Byte strings that the code inspects byte by byte (the secret payload,   *)
(* the rendered authorization header, decoded keys and values) are         *)
(* sequences of bytes 0..255; names that the code only formats are TLA+    *)
(* strings.                                                                *)
(***************************************************************************)
EXTENDS Integers, Sequences, FiniteSets, TLC

\* Number of Vault operations started on the one GoogleVault instance.
MaxCalls == 2

Calls == 1..MaxCalls

None == <<>>

Some(x) == <<x>>

\* The printable ASCII characters, from the space (byte 32) to the tilde
\* (byte 126); the grave accent (byte 96) is written by its name.
AsciiChars ==
    <<
       " ", "!", "\"", "#", "$", "%", "&", "'", "(", ")", "*", "+",
       ",", "-", ".", "/", "0", "1", "2", "3", "4", "5", "6", "7",
       "8", "9", ":", ";", "<", "=", ">", "?", "@", "A", "B", "C",
       "D", "E", "F", "G", "H", "I", "J", "K", "L", "M", "N", "O",
       "P", "Q", "R", "S", "T", "U", "V", "W", "X", "Y", "Z", "[",
       "\\", "]", "^", "_", "grave", "a", "b", "c", "d", "e", "f", "g",
       "h", "i", "j", "k", "l", "m", "n", "o", "p", "q", "r", "s",
       "t", "u", "v", "w", "x", "y", "z", "{", "|", "}", "~"
    >>

\* The byte of a printable ASCII character.
Byte(ch) == 31 + (CHOOSE i \in 1..Len(AsciiChars) : AsciiChars[i] = ch)

\* The bytes of a text given character by character.
Bytes(text) == [i \in 1..Len(text) |-> Byte(text[i])]

\* ------------------------------------------------------------------------
\* Inputs and environment answers
\* ------------------------------------------------------------------------

Projects == {"proj-1"}

SecretNames == {"db-password", "api"}

Prefixes == {"", "APP_"}

\* Credential files of the environment: one that holds a valid service
\* account, one that does not exist, one that is not a service account.
CredentialPaths == {"good.json", "missing.json", "malformed.json"}

FileStatus(path) ==
    CASE path = "good.json"      -> "valid"
      [] path = "missing.json"   -> "missing"
      [] path = "malformed.json" -> "malformed"

\* Outcomes of gouth's ambient credential discovery (Token::new()).
AmbientOutcomes == {"valid", "no_default_credentials"}

\* What the TLS configuration of the endpoint answers.
TlsOutcomes == {"configured", "tls_error"}

\* Answers to connect().await.
ChannelOutcomes == {"connected", "transport_error"}

\* What Token::header_value() can answer: an error, or the header text.
\* The first text is "B" and a two-byte UTF-8 character, the second holds
\* a line feed.
HeaderGood == <<66, 195, 169>>

HeaderBad == <<66, 10>>

HeaderOutcomes ==
    { [ok |-> FALSE, bytes |-> <<>>],
      [ok |-> TRUE, bytes |-> HeaderGood],
      [ok |-> TRUE, bytes |-> HeaderBad] }

\* Non-success statuses the service answers with.
ErrorStatuses == {"NOT_FOUND", "PERMISSION_DENIED"}

Q == "\""

\* Secret payload bytes.
PayloadEmptyData == <<>>

\* { "B" : "y\t", "A":"x" }  (white space, an escape, keys out of order)
PayloadTwo ==
    Bytes(<<"{", " ", Q, "B", Q, " ", ":", " ", Q, "y", "\\", "t", Q, ",",
            " ", Q, "A", Q, ":", Q, "x", Q, " ", "}">>)

\* {"A":[true,-1.5e2]}  (well-formed JSON, a value that is no string)
PayloadNonString ==
    Bytes(<<"{", Q, "A", Q, ":", "[", "t", "r", "u", "e", ",", "-", "1", ".",
            "5", "e", "2", "]", "}">>)

\* {"A"  (the input ends inside the object)
PayloadTruncated == Bytes(<<"{", Q, "A", Q>>)

\* {"A":01}  (a number with a leading zero)
PayloadLeadingZero == Bytes(<<"{", Q, "A", Q, ":", "0", "1", "}">>)

PayloadEmptyObject == Bytes(<<"{", "}">>)

PayloadData ==
    { PayloadEmptyData, PayloadTwo, PayloadNonString, PayloadTruncated,
      PayloadLeadingZero, PayloadEmptyObject }

\* AccessSecretVersionResponse: a status, and on OK an optional payload.
Responses ==
    { [status |-> s, payload |-> None] : s \in ErrorStatuses }
    \cup { [status |-> "OK", payload |-> None] }
    \cup { [status |-> "OK", payload |-> Some(d)] : d \in PayloadData }

\* ------------------------------------------------------------------------
\* serde_json::from_slice on the payload bytes.
\* ------------------------------------------------------------------------

\* Value: the bytes of a string, the elements of an array, the members of
\* an object, the number of a Number.
NoNumber == [kind |-> "", neg |-> FALSE, digits |-> <<>>, exp2 |-> 0]

JValue(t, s, a, m) == [t |-> t, s |-> s, a |-> a, m |-> m, n |-> NoNumber]

JNull == JValue("Null", <<>>, <<>>, <<>>)

JBool(b) == JValue("Bool", IF b THEN <<1>> ELSE <<0>>, <<>>, <<>>)

JNumber(n) == [JValue("Number", <<>>, <<>>, <<>>) EXCEPT !.n = n]

JString(bytes) == JValue("String", bytes, <<>>, <<>>)

JArray(a) == JValue("Array", <<>>, a, <<>>)

JObject(m) == JValue("Object", <<>>, <<>>, m)

ParseOk(v, next) == [ok |-> TRUE, v |-> v, next |-> next, err |-> ""]

ParseErr(e) == [ok |-> FALSE, v |-> JNull, next |-> 0, err |-> e]

\* Containers nest at most this deep (serde_json's recursion limit).
RecursionLimit == 128

EOF == -1

\* The byte at position i, EOF past the end.
At(s, i) == IF i >= 1 /\ i <= Len(s) THEN s[i] ELSE EOF

IsDigit(b) == b >= 48 /\ b <= 57

\* Space, line feed, tab, carriage return.
IsWhitespace(b) == b \in {32, 10, 9, 13}

\* The first position at or after i that holds no white space.
SkipWhitespace(s, i) ==
    CHOOSE j \in i..(Len(s) + 1) :
        /\ ~IsWhitespace(At(s, j))
        /\ \A k \in i..(j - 1) : IsWhitespace(At(s, k))

\* The first position at or after i that holds no digit.
DigitsEnd(s, i) ==
    CHOOSE j \in i..(Len(s) + 1) :
        /\ ~IsDigit(At(s, j))
        /\ \A k \in i..(j - 1) : IsDigit(At(s, k))

\* serde_json's Map: a key appears once, a later value replaces an earlier.
MapInsert(m, k, v) ==
    [x \in (DOMAIN m) \cup {k} |-> IF x = k THEN v ELSE m[x]]

\* parse_ident: the letters that follow the first letter of true, false, null.
ParseIdent(s, i, rest, v) ==
    LET bad == {k \in 1..Len(rest) : At(s, i + k - 1) # rest[k]} IN
    IF bad = {} THEN ParseOk(v, i + Len(rest))
    ELSE LET k == CHOOSE k \in bad : \A o \in bad : k <= o IN
         IF At(s, i + k - 1) = EOF THEN ParseErr("EOF while parsing a value")
         ELSE ParseErr("expected ident")

RECURSIVE DecimalValue(_)
DecimalValue(d) ==
    IF d = <<>> THEN 0 ELSE 10 * DecimalValue(SubSeq(d, 1, Len(d) - 1)) + d[Len(d)]

\* The digits at positions from..to-1.
DigitValues(s, from, to) == [i \in 1..(to - from) |-> s[from + i - 1] - 48]

Greatest(S) == CHOOSE x \in S : \A y \in S : y <= x

Least(S) == CHOOSE x \in S : \A y \in S : x <= y

\* Whether the digits a are at most the digits b, both of one length.
DigitsAtMost(a, b) ==
    \/ a = b
    \/ a[Least({i \in 1..Len(a) : a[i] # b[i]})] < b[Least({i \in 1..Len(a) : a[i] # b[i]})]

\* u64::MAX, 2^63 and i32::MAX in decimal digits.
U64Max == <<1, 8, 4, 4, 6, 7, 4, 4, 0, 7, 3, 7, 0, 9, 5, 5, 1, 6, 1, 5>>

I64MinMagnitude == <<9, 2, 2, 3, 3, 7, 2, 0, 3, 6, 8, 5, 4, 7, 7, 5, 8, 0, 8>>

I32MaxDigits == <<2, 1, 4, 7, 4, 8, 3, 6, 4, 7>>

I32Max == 2147483647

I32Min == (0 - 2147483647) - 1

\* The number of leading zeros of the digits d.
LeadingZeros(d) ==
    IF \A i \in 1..Len(d) : d[i] = 0 THEN Len(d)
    ELSE Least({i \in 1..Len(d) : d[i] # 0}) - 1

DropLeadingZeros(d) == SubSeq(d, LeadingZeros(d) + 1, Len(d))

\* The significand is a u64 that takes digit after digit until
\* significand * 10 + digit would pass u64::MAX (the overflow! test): the
\* length of the longest prefix of d that a u64 holds, z being the number
\* of d's leading zeros.
AcceptedAfter(d, z) ==
    IF Len(d) - z <= 19 THEN Len(d)
    ELSE IF DigitsAtMost(SubSeq(d, z + 1, z + 20), U64Max) THEN z + 20
    ELSE z + 19

Accepted(d) == AcceptedAfter(d, LeadingZeros(d))

\* ------------------------------------------------------------------------
\* Natural numbers of any size, for the arithmetic of u64 and f64: limbs of
\* 15 bits, the lowest first; zero is <<>>, and the results have no zero
\* limb at the top.
\* ------------------------------------------------------------------------

LimbBits == 15

Base == 32768

Limb(a, i) == IF i <= Len(a) THEN a[i] ELSE 0

Trim(a) ==
    IF \A i \in 1..Len(a) : a[i] = 0 THEN <<>>
    ELSE SubSeq(a, 1, Greatest({i \in 1..Len(a) : a[i] # 0}))

\* Whether the sum of the limbs below i carries into limb i: some limb
\* below overflows, and every limb between it and i is full.
Carry(a, b, i) ==
    \E j \in 1..(i - 1) :
        /\ Limb(a, j) + Limb(b, j) >= Base
        /\ \A k \in (j + 1)..(i - 1) : Limb(a, k) + Limb(b, k) = Base - 1

Add(a, b) ==
    Trim(IF a = <<>> THEN b
         ELSE IF b = <<>> THEN a
         ELSE [i \in 1..(Greatest({Len(a), Len(b)}) + 1) |->
                  (Limb(a, i) + Limb(b, i) + (IF Carry(a, b, i) THEN 1 ELSE 0)) % Base])

\* Whether the difference of the limbs below i borrows from limb i.
Borrow(a, b, i) ==
    \E j \in 1..(i - 1) :
        /\ Limb(a, j) < Limb(b, j)
        /\ \A k \in (j + 1)..(i - 1) : Limb(a, k) = Limb(b, k)

\* a - b for a >= b.
Sub(a, b) ==
    Trim(IF b = <<>> THEN a
         ELSE [i \in 1..Len(a) |->
                  (a[i] - Limb(b, i) - (IF Borrow(a, b, i) THEN 1 ELSE 0) + Base) % Base])

\* a * k for 0 <= k < Base: the low halves of the limbs' products, and
\* the high halves one limb up.
Times(a, k) ==
    Add([i \in 1..Len(a) |-> (a[i] * k) % Base],
        <<0>> \o [i \in 1..Len(a) |-> (a[i] * k) \div Base])

\* a * k + c for 0 <= k < Base and 0 <= c < Base.
MulAdd(a, k, c) == Add(Times(a, k), <<c>>)

\* Whether a <= b.
AtMost(a, b) ==
    IF Len(a) # Len(b) THEN Len(a) < Len(b)
    ELSE \/ a = b
         \/ a[Greatest({i \in 1..Len(a) : a[i] # b[i]})]
              < b[Greatest({i \in 1..Len(a) : a[i] # b[i]})]

\* a * Base^n.
ShiftLimbs(a, n) == IF a = <<>> THEN <<>> ELSE [i \in 1..n |-> 0] \o a

RECURSIVE MulRange(_, _, _, _)
\* a times the limbs lo..hi of b.
MulRange(a, b, lo, hi) ==
    IF lo = hi THEN Times(a, b[lo])
    ELSE Add(MulRange(a, b, lo, (lo + hi) \div 2),
             ShiftLimbs(MulRange(a, b, ((lo + hi) \div 2) + 1, hi),
                        ((lo + hi) \div 2) + 1 - lo))

Mul(a, b) == IF a = <<>> \/ b = <<>> THEN <<>> ELSE MulRange(a, b, 1, Len(b))

RECURSIVE DivSmallFrom(_, _, _, _, _)
\* The limbs i..1 of a divided by k, r being the remainder of the limbs
\* above and q their quotient.
DivSmallFrom(a, k, i, r, q) ==
    IF i = 0 THEN [q |-> Trim(q), r |-> r]
    ELSE DivSmallFrom(a, k, i - 1, (r * Base + a[i]) % k,
                      <<(r * Base + a[i]) \div k>> \o q)

\* a \div k and a % k for 1 <= k <= Base.
DivSmall(a, k) == DivSmallFrom(a, k, Len(a), 0, <<>>)

\* The number of bits of a limb x >= 1.
LimbBitLength(x) == Least({k \in 1..LimbBits : x < 2 ^ k})

BitLength(a) ==
    IF a = <<>> THEN 0 ELSE LimbBits * (Len(a) - 1) + LimbBitLength(a[Len(a)])

\* a * 2^n.
ShiftLeft(a, n) == ShiftLimbs(Times(a, 2 ^ (n % LimbBits)), n \div LimbBits)

\* Limb i of a and the limbs above it, shifted down by s < LimbBits bits.
ShiftedDown(a, i, s) ==
    (a[i] \div (2 ^ s)) + (Limb(a, i + 1) % (2 ^ s)) * (2 ^ (LimbBits - s))

\* a \div 2^n.
ShiftRight(a, n) ==
    Trim([i \in 1..(Len(a) - (n \div LimbBits)) |->
             ShiftedDown(a, i + (n \div LimbBits), n % LimbBits)])

\* Bit j of a, the lowest being bit 0.
Bit(a, j) == (Limb(a, (j \div LimbBits) + 1) \div (2 ^ (j % LimbBits))) % 2

\* Whether the bits of a below bit j are all zero.
LowBitsZero(a, j) ==
    /\ \A i \in 1..(j \div LimbBits) : Limb(a, i) = 0
    /\ Limb(a, (j \div LimbBits) + 1) % (2 ^ (j % LimbBits)) = 0

\* The number of zero bits at the low end of a # 0.
LowZeros(a) == Least({j \in 0..(LimbBits * Len(a)) : Bit(a, j) = 1})

IsOdd(a) == a # <<>> /\ a[1] % 2 = 1

RECURSIVE QuotLimb(_, _, _, _)
\* The greatest limb q with q * d <= r, found three bits at a time: lo is
\* a multiple of 8 * step with lo * d <= r < (lo + 8 * step) * d.
QuotLimb(r, d, lo, step) ==
    IF step = 0 THEN lo
    ELSE QuotLimb(r, d,
                  lo + step * Greatest({t \in 0..7 :
                                          t = 0 \/ AtMost(Times(d, lo + t * step), r)}),
                  step \div 8)

RECURSIVE DivModFrom(_, _, _, _, _)
RECURSIVE DivModStep(_, _, _, _, _)
RECURSIVE DivModNext(_, _, _, _, _, _)

\* Long division of the limbs i..1 of n by d # 0, r < d being the
\* remainder of the limbs above and q their quotient.
DivModFrom(n, d, i, r, q) ==
    IF i = 0 THEN [q |-> Trim(q), r |-> r]
    ELSE DivModStep(n, d, i, Trim(<<n[i]>> \o r), q)

DivModStep(n, d, i, r, q) ==
    IF r = <<>> THEN DivModFrom(n, d, i - 1, r, <<0>> \o q)
    ELSE DivModNext(n, d, i, r, q, QuotLimb(r, d, 0, Base \div 8))

DivModNext(n, d, i, r, q, digit) ==
    DivModFrom(n, d, i - 1, Sub(r, Times(d, digit)), <<digit>> \o q)

\* n \div d and n % d for d # 0: the top limbs of n, one fewer than d has,
\* are less than d.
DivMod(n, d) ==
    IF Len(n) < Len(d) THEN [q |-> <<>>, r |-> n]
    ELSE DivModFrom(n, d, Len(n) - Len(d) + 1,
                    Trim(SubSeq(n, Len(n) - Len(d) + 2, Len(n))), <<>>)

\* The digits of a decimal number are taken four at a time.
DecimalChunk == 4

DecimalChunkSize == 10000

RECURSIVE FromDecimal(_)
\* The number with the decimal digits d.
FromDecimal(d) ==
    IF Len(d) <= DecimalChunk THEN Trim(<<DecimalValue(d)>>)
    ELSE MulAdd(FromDecimal(SubSeq(d, 1, Len(d) - DecimalChunk)), DecimalChunkSize,
                DecimalValue(SubSeq(d, Len(d) - DecimalChunk + 1, Len(d))))

\* The n decimal digits of x < 10^n.
Digits(x, n) == [i \in 1..n |-> (x \div (10 ^ (n - i))) % 10]

RECURSIVE ToDecimalFrom(_)
RECURSIVE ToDecimalNext(_)

ToDecimalFrom(a) ==
    IF a = <<>> THEN <<>> ELSE ToDecimalNext(DivSmall(a, DecimalChunkSize))

ToDecimalNext(qr) == ToDecimalFrom(qr.q) \o Digits(qr.r, DecimalChunk)

\* The decimal digits of a, <<0>> for zero.
ToDecimal(a) == IF a = <<>> THEN <<0>> ELSE DropLeadingZeros(ToDecimalFrom(a))

RECURSIVE Pow5(_)
\* 5^k.
Pow5(k) ==
    IF k <= 6 THEN <<5 ^ k>>
    ELSE Mul(Pow5(k \div 2), Pow5(k - (k \div 2)))

\* ------------------------------------------------------------------------
\* f64: the value (-1)^neg * m * 2^e, zero being m = <<>> with e = 0.
\* Every operation rounds its exact result to the nearest f64, ties to the
\* even mantissa; a result of 2^1024 or more is infinite.
\* ------------------------------------------------------------------------

F64MantissaBits == 53

\* The exponent of the lowest bit of the least subnormal, 2^-1074.
F64LeastExponent == 0 - 1074

\* Values from 2^1024 on are infinite.
F64InfiniteExponent == 1024

F64(neg, m, e) == [neg |-> neg, m |-> m, e |-> e]

F64Zero(neg) == F64(neg, <<>>, 0)

\* The f64 m * 2^e for an m that needs no rounding.
Rounded(neg, m, e) ==
    [inf |-> BitLength(m) + e > F64InfiniteExponent,
     f |-> F64(neg, m, IF m = <<>> THEN 0 ELSE e)]

\* q is n without its lowest shift bits. The bits lost are above half a
\* unit, or half a unit with q odd, when q is rounded up; sticky tells
\* that the exact value lies above n.
RoundedMantissa(q, n, shift, sticky) ==
    IF /\ Bit(n, shift - 1) = 1
       /\ (sticky \/ ~LowBitsZero(n, shift - 1) \/ IsOdd(q))
    THEN Add(q, <<1>>)
    ELSE q

RoundAt(neg, n, e, sticky, shift) ==
    Rounded(neg,
            IF shift <= 0 THEN n ELSE RoundedMantissa(ShiftRight(n, shift), n, shift, sticky),
            IF shift <= 0 THEN e ELSE e + shift)

\* The f64 nearest to n * 2^e, or to a value between n * 2^e and
\* (n + 1) * 2^e when sticky; the lowest bit kept is 53 bits below the
\* top one, and never below 2^-1074.
RoundF64(neg, n, e, sticky) ==
    IF n = <<>> THEN [inf |-> FALSE, f |-> F64Zero(neg)]
    ELSE RoundAt(neg, n, e, sticky,
                 Greatest({BitLength(n) + e - F64MantissaBits, F64LeastExponent}) - e)

\* f * g
F64Mul(f, g) == RoundF64(f.neg # g.neg, Mul(f.m, g.m), f.e + g.e, FALSE)

QuotientRounded(neg, dm, e) == RoundF64(neg, dm.q, e, dm.r # <<>>)

\* f / g for f, g # 0: the quotient of the mantissas is taken to at least
\* 56 bits, k being the bits added to f's mantissa.
F64DivBy(f, g, k) ==
    QuotientRounded(f.neg # g.neg, DivMod(ShiftLeft(f.m, k), g.m), f.e - g.e - k)

\* f / g for g # 0
F64Div(f, g) ==
    IF f.m = <<>> THEN [inf |-> FALSE, f |-> F64Zero(f.neg # g.neg)]
    ELSE F64DivBy(f, g, 56 + BitLength(g.m) - BitLength(f.m))

\* significand as f64
U64ToF64(digits) == RoundF64(FALSE, FromDecimal(digits), 0, FALSE).f

\* The table POW10: the f64 written 1e0, 1e1, .. 1e308.
POW10(k) == RoundF64(FALSE, Pow5(k), k, FALSE).f

Pow10Last == 308

Negated(neg, f) == F64(neg, f.m, f.e)

F64Ok(f) == [ok |-> TRUE, f |-> f]

F64OutOfRange == [ok |-> FALSE, f |-> F64Zero(FALSE)]

\* The arm of f64_from_parts for an exponent the table POW10 holds: the
\* product must not be infinite, the quotient may be anything.
Product(neg, r) == IF r.inf THEN F64OutOfRange ELSE F64Ok(Negated(neg, r.f))

Scaled(neg, f, exponent, pow) ==
    IF exponent >= 0 THEN Product(neg, F64Mul(f, pow))
    ELSE F64Ok(Negated(neg, F64Div(f, pow).f))

RECURSIVE FromParts(_, _, _)
\* The loop of f64_from_parts on f = significand as f64: beyond the table
\* zero stays zero, a positive exponent is out of range, and a negative
\* one divides by 1e308 and goes on.
FromParts(neg, f, exponent) ==
    IF exponent >= 0 - Pow10Last /\ exponent <= Pow10Last
    THEN Scaled(neg, f, exponent, POW10(IF exponent < 0 THEN 0 - exponent ELSE exponent))
    ELSE IF f.m = <<>> THEN F64Ok(Negated(neg, f))
    ELSE IF exponent >= 0 THEN F64OutOfRange
    ELSE FromParts(neg, F64Div(f, POW10(Pow10Last)).f, exponent + Pow10Last)

\* f64_from_parts(positive, significand, exponent)
f64_from_parts(neg, significand, exponent) ==
    FromParts(neg, U64ToF64(significand), exponent)

\* Value::Number. PosInt and NegInt hold the decimal digits of the
\* magnitude; Float holds the f64 (-1)^neg * digits * 2^exp2, digits being
\* the decimal digits of the odd mantissa, <<0>> with exp2 = 0 for zero.
Number(kind, neg, digits, exp2) ==
    [kind |-> kind, neg |-> neg, digits |-> digits, exp2 |-> exp2]

FloatOdd(neg, m, e, zeros) == Number("Float", neg, ToDecimal(ShiftRight(m, zeros)), e + zeros)

Float(f) ==
    IF f.m = <<>> THEN Number("Float", f.neg, <<0>>, 0)
    ELSE FloatOdd(f.neg, f.m, f.e, LowZeros(f.m))

\* ------------------------------------------------------------------------
\* serde_json's number parser: the text of the number, then its value
\* ------------------------------------------------------------------------

\* The parts of a number's text: the digits of the integer part, of the
\* fraction and of the exponent, and the position after the number.
NumText(neg, int, frac, float, expNeg, e, next) ==
    [ok |-> TRUE, err |-> "", neg |-> neg, int |-> int, frac |-> frac,
     float |-> float, expNeg |-> expNeg, e |-> e, next |-> next]

NumTextErr(err) ==
    [ok |-> FALSE, err |-> err, neg |-> FALSE, int |-> <<>>, frac |-> <<>>,
     float |-> FALSE, expNeg |-> FALSE, e |-> <<>>, next |-> 0]

\* parse_exponent, after the e and its sign: a digit must follow.
NumExponentDigits(s, i, p, intEnd, fracEnd, expFrom) ==
    IF At(s, expFrom) = EOF THEN NumTextErr("EOF while parsing a value")
    ELSE IF ~IsDigit(At(s, expFrom)) THEN NumTextErr("invalid number")
    ELSE NumText(p > i, DigitValues(s, p, intEnd), DigitValues(s, intEnd + 1, fracEnd),
                 TRUE, At(s, expFrom - 1) = 45,
                 DigitValues(s, expFrom, DigitsEnd(s, expFrom)), DigitsEnd(s, expFrom))

NumExponent(s, i, p, intEnd, fracEnd) ==
    IF At(s, fracEnd) \notin {101, 69}
    THEN NumText(p > i, DigitValues(s, p, intEnd), DigitValues(s, intEnd + 1, fracEnd),
                 fracEnd > intEnd, FALSE, <<>>, fracEnd)
    ELSE NumExponentDigits(s, i, p, intEnd, fracEnd,
                           IF At(s, fracEnd + 1) \in {43, 45} THEN fracEnd + 2
                           ELSE fracEnd + 1)

\* parse_decimal, after the point: a digit must follow.
NumFractionDigits(s, i, p, intEnd, fracEnd) ==
    IF fracEnd > intEnd + 1 THEN NumExponent(s, i, p, intEnd, fracEnd)
    ELSE IF At(s, fracEnd) = EOF THEN NumTextErr("EOF while parsing a value")
    ELSE NumTextErr("invalid number")

NumFraction(s, i, p, intEnd) ==
    IF At(s, intEnd) = 46 THEN NumFractionDigits(s, i, p, intEnd, DigitsEnd(s, intEnd + 1))
    ELSE NumExponent(s, i, p, intEnd, intEnd)

\* parse_integer: a zero stands alone, any other digit starts a run.
NumInteger(s, i, p) ==
    IF At(s, p) = EOF THEN NumTextErr("EOF while parsing a value")
    ELSE IF ~IsDigit(At(s, p)) THEN NumTextErr("invalid number")
    ELSE IF At(s, p) = 48 /\ IsDigit(At(s, p + 1)) THEN NumTextErr("invalid number")
    ELSE NumFraction(s, i, p, IF At(s, p) = 48 THEN p + 1 ELSE DigitsEnd(s, p))

SaturatingAdd(a, b) == IF a > 0 /\ b > I32Max - a THEN I32Max ELSE a + b

SaturatingSub(a, b) == IF a < 0 /\ b > (a + I32Max) + 1 THEN I32Min ELSE a - b

\* The significand and the exponent that the digits of the integer part
\* and of the fraction leave: d is what the integer part gave the
\* significand followed by the fraction, n the number of d's digits that
\* the significand takes. An integer digit that is not taken counts one
\* up, a fraction digit that is taken counts one down.
SignificandCut(int, d, n) ==
    [digits |-> DropLeadingZeros(SubSeq(d, 1, n)), exp |-> Len(int) - n]

SignificandOf(int, d) == SignificandCut(int, d, Accepted(d))

Significand(int, frac) == SignificandOf(int, SubSeq(int, 1, Accepted(int)) \o frac)

\* The value of a number: an integer of the given kind, or an f64.
Whole(kind, digits) == [ok |-> TRUE, kind |-> kind, digits |-> digits, f |-> F64Zero(FALSE)]

Floating(f) == [ok |-> TRUE, kind |-> "Float", digits |-> <<>>, f |-> f]

NumOutOfRange == [ok |-> FALSE, kind |-> "", digits |-> <<>>, f |-> F64Zero(FALSE)]

\* parse_number for digits that a u64 holds and nothing after them: a u64,
\* an i64 when negative, an f64 for -0 and below i64::MIN.
Integer(neg, digits) ==
    IF ~neg THEN Whole("PosInt", digits)
    ELSE IF digits = <<0>> THEN Floating(F64Zero(TRUE))
    ELSE IF \/ Len(digits) < Len(I64MinMagnitude)
            \/ Len(digits) = Len(I64MinMagnitude) /\ DigitsAtMost(digits, I64MinMagnitude)
    THEN Whole("NegInt", digits)
    ELSE Floating(Negated(TRUE, U64ToF64(digits)))

FromPartsValue(r) == IF r.ok THEN Floating(r.f) ELSE NumOutOfRange

\* A number with a fraction, an exponent or more digits than a u64 holds;
\* e is the exponent's digits without leading zeros. An exponent beyond
\* i32::MAX is out of range when it is positive and the significand is
\* not zero (parse_exponent_overflow), else the number is zero; any other
\* exponent is added to the one the digits left, saturating.
FloatValue(neg, sig, expNeg, e) ==
    IF Len(e) > Len(I32MaxDigits) \/ (Len(e) = Len(I32MaxDigits) /\ ~DigitsAtMost(e, I32MaxDigits))
    THEN (IF sig.digits # <<>> /\ ~expNeg THEN NumOutOfRange ELSE Floating(F64Zero(neg)))
    ELSE FromPartsValue(f64_from_parts(neg, sig.digits,
                                       IF expNeg THEN SaturatingSub(sig.exp, DecimalValue(e))
                                       ELSE SaturatingAdd(sig.exp, DecimalValue(e))))

NumberValue(text) ==
    IF ~text.float /\ Accepted(text.int) = Len(text.int) THEN Integer(text.neg, text.int)
    ELSE FloatValue(text.neg, Significand(text.int, text.frac), text.expNeg,
                    DropLeadingZeros(text.e))

NumberOf(v) ==
    IF v.kind = "Float" THEN Float(v.f) ELSE Number(v.kind, v.kind = "NegInt", v.digits, 0)

NumValued(next, v) ==
    IF v.ok THEN ParseOk(JNumber(NumberOf(v)), next) ELSE ParseErr("number out of range")

NumRead(text) ==
    IF text.ok THEN NumValued(text.next, NumberValue(text)) ELSE ParseErr(text.err)

\* parse_any_number: the number that starts at position i, at its minus
\* sign or its first digit.
ParseNumber(s, i) == NumRead(NumInteger(s, i, IF At(s, i) = 45 THEN i + 1 ELSE i))

\* decode_hex_val
HexValue(b) ==
    IF b >= 48 /\ b <= 57 THEN b - 48
    ELSE IF b >= 65 /\ b <= 70 THEN b - 55
    ELSE IF b >= 97 /\ b <= 102 THEN b - 87
    ELSE EOF

\* decode_hex_escape: the four hex digits at positions i..i+3.
HexEscape(s, i) ==
    IF i + 3 > Len(s) THEN [ok |-> FALSE, n |-> 0, err |-> "EOF while parsing a string"]
    ELSE IF \E k \in 0..3 : HexValue(s[i + k]) = EOF
    THEN [ok |-> FALSE, n |-> 0, err |-> "invalid escape"]
    ELSE [ok |-> TRUE,
          n |-> 4096 * HexValue(s[i]) + 256 * HexValue(s[i + 1])
                + 16 * HexValue(s[i + 2]) + HexValue(s[i + 3]),
          err |-> ""]

\* char::encode_utf8
Utf8Encode(n) ==
    IF n < 128 THEN <<n>>
    ELSE IF n < 2048 THEN <<192 + (n \div 64), 128 + (n % 64)>>
    ELSE IF n < 65536
    THEN <<224 + (n \div 4096), 128 + ((n \div 64) % 64), 128 + (n % 64)>>
    ELSE <<240 + (n \div 262144), 128 + ((n \div 4096) % 64),
           128 + ((n \div 64) % 64), 128 + (n % 64)>>

IsContinuation(b) == b >= 128 /\ b <= 191

\* The length of the well-formed UTF-8 sequence that starts with bytes
\* b1 b2 b3 b4 (EOF past the end), 0 when there is none.
Utf8Length(b1, b2, b3, b4) ==
    IF b1 < 128 THEN 1
    ELSE IF b1 >= 194 /\ b1 <= 223
    THEN IF IsContinuation(b2) THEN 2 ELSE 0
    ELSE IF b1 >= 224 /\ b1 <= 239
    THEN IF /\ IsContinuation(b2)
            /\ b1 = 224 => b2 >= 160
            /\ b1 = 237 => b2 <= 159
            /\ IsContinuation(b3)
         THEN 3 ELSE 0
    ELSE IF b1 >= 240 /\ b1 <= 244
    THEN IF /\ IsContinuation(b2)
            /\ b1 = 240 => b2 >= 144
            /\ b1 = 244 => b2 <= 143
            /\ IsContinuation(b3)
            /\ IsContinuation(b4)
         THEN 4 ELSE 0
    ELSE 0

RECURSIVE Utf8ValidFrom(_, _)
Utf8ValidFrom(b, i) ==
    \/ i > Len(b)
    \/ /\ Utf8Length(b[i], At(b, i + 1), At(b, i + 2), At(b, i + 3)) > 0
       /\ Utf8ValidFrom(b, i + Utf8Length(b[i], At(b, i + 1), At(b, i + 2), At(b, i + 3)))

\* str::from_utf8
Utf8Valid(b) == Utf8ValidFrom(b, 1)

\* The character of a one-letter escape, EOF for any other letter.
SimpleEscape(b) ==
    CASE b = 34  -> 34
      [] b = 92  -> 92
      [] b = 47  -> 47
      [] b = 98  -> 8
      [] b = 102 -> 12
      [] b = 110 -> 10
      [] b = 114 -> 13
      [] b = 116 -> 9
      [] OTHER   -> EOF

StrBytes(bytes, next) == [ok |-> TRUE, bytes |-> bytes, next |-> next, err |-> ""]

StrErr(e) == [ok |-> FALSE, bytes |-> <<>>, next |-> 0, err |-> e]

\* The trailing surrogate h2 of the leading surrogate n1; i is the position
\* after h2's digits.
SurrogatePair(n1, h2, i) ==
    IF ~h2.ok THEN StrErr(h2.err)
    ELSE IF h2.n < 56320 \/ h2.n > 57343
    THEN StrErr("lone leading surrogate in hex escape")
    ELSE StrBytes(Utf8Encode(65536 + 1024 * (n1 - 55296) + (h2.n - 56320)), i)

\* parse_escape for \u, given the escape's hex digits h1, which end
\* before position i; a leading surrogate must be followed by the escape
\* of a trailing one.
UnicodeEscape(s, i, h1) ==
    IF ~h1.ok THEN StrErr(h1.err)
    ELSE IF h1.n >= 56320 /\ h1.n <= 57343
    THEN StrErr("lone leading surrogate in hex escape")
    ELSE IF h1.n < 55296 \/ h1.n > 56319 THEN StrBytes(Utf8Encode(h1.n), i)
    ELSE IF At(s, i) = EOF THEN StrErr("EOF while parsing a string")
    ELSE IF At(s, i) # 92 THEN StrErr("unexpected end of hex escape")
    ELSE IF At(s, i + 1) = EOF THEN StrErr("EOF while parsing a string")
    ELSE IF At(s, i + 1) # 117 THEN StrErr("unexpected end of hex escape")
    ELSE SurrogatePair(h1.n, HexEscape(s, i + 2), i + 6)

\* parse_escape: the escape whose letter is at position i.
Escape(s, i) ==
    IF At(s, i) = EOF THEN StrErr("EOF while parsing a string")
    ELSE IF At(s, i) = 117 THEN UnicodeEscape(s, i + 5, HexEscape(s, i + 1))
    ELSE IF SimpleEscape(At(s, i)) = EOF THEN StrErr("invalid escape")
    ELSE StrBytes(<<SimpleEscape(At(s, i))>>, i + 1)

\* One byte or one escape of a string's content, at position i, which
\* holds no closing quote.
StrUnit(s, i) ==
    IF s[i] = 92 THEN Escape(s, i + 1)
    ELSE IF s[i] < 32 THEN StrErr("control character found while parsing a string")
    ELSE StrBytes(<<s[i]>>, i + 1)

RECURSIVE ParseStr(_, _, _)
RECURSIVE StrContinue(_, _, _)

\* parse_str: the rest of a string whose bytes so far are acc; i is the
\* position after the opening quote or after what acc was read from.
ParseStr(s, i, acc) ==
    IF At(s, i) = EOF THEN ParseErr("EOF while parsing a string")
    ELSE IF At(s, i) = 34
    THEN IF Utf8Valid(acc) THEN ParseOk(JString(acc), i + 1)
         ELSE ParseErr("invalid unicode code point")
    ELSE StrContinue(s, acc, StrUnit(s, i))

StrContinue(s, acc, u) ==
    IF u.ok THEN ParseStr(s, u.next, acc \o u.bytes) ELSE ParseErr(u.err)

RECURSIVE ParseValue(_, _, _)
RECURSIVE ParseElements(_, _, _, _, _)
RECURSIVE ParseMembers(_, _, _, _, _)

\* deserialize_any: the value at or after position i, inside depth containers.
ParseValue(s, i, depth) ==
    LET p == SkipWhitespace(s, i)
        c == At(s, p)
    IN  IF c = EOF THEN ParseErr("EOF while parsing a value")
        ELSE IF c = 110 THEN ParseIdent(s, p + 1, <<117, 108, 108>>, JNull)
        ELSE IF c = 116 THEN ParseIdent(s, p + 1, <<114, 117, 101>>, JBool(TRUE))
        ELSE IF c = 102 THEN ParseIdent(s, p + 1, <<97, 108, 115, 101>>, JBool(FALSE))
        ELSE IF c = 45 \/ IsDigit(c) THEN ParseNumber(s, p)
        ELSE IF c = 34
        THEN ParseStr(s, p + 1, <<>>)
        ELSE IF c = 91
        THEN IF depth + 1 >= RecursionLimit THEN ParseErr("recursion limit exceeded")
             ELSE ParseElements(s, p + 1, TRUE, <<>>, depth + 1)
        ELSE IF c = 123
        THEN IF depth + 1 >= RecursionLimit THEN ParseErr("recursion limit exceeded")
             ELSE ParseMembers(s, p + 1, TRUE, <<>>, depth + 1)
        ELSE ParseErr("expected value")

\* SeqAccess: the elements of an array from position i to its bracket.
ParseElements(s, i, first, acc, depth) ==
    LET p == SkipWhitespace(s, i)
        c == At(s, p)
        q == IF c = 44 /\ ~first THEN SkipWhitespace(s, p + 1) ELSE p
    IN  IF c = EOF THEN ParseErr("EOF while parsing a list")
        ELSE IF c = 93 THEN ParseOk(JArray(acc), p + 1)
        ELSE IF ~first /\ c # 44 THEN ParseErr("expected comma or closing bracket")
        ELSE IF At(s, q) = 93 THEN ParseErr("trailing comma")
        ELSE IF At(s, q) = EOF THEN ParseErr("EOF while parsing a value")
        ELSE LET v == ParseValue(s, q, depth) IN
             IF ~v.ok THEN v
             ELSE ParseElements(s, v.next, FALSE, Append(acc, v.v), depth)

\* MapAccess: the "key":value pairs of an object from position i to its brace.
ParseMembers(s, i, first, acc, depth) ==
    LET p == SkipWhitespace(s, i)
        c == At(s, p)
        q == IF c = 44 /\ ~first THEN SkipWhitespace(s, p + 1) ELSE p
    IN  IF c = EOF THEN ParseErr("EOF while parsing an object")
        ELSE IF c = 125 THEN ParseOk(JObject(acc), p + 1)
        ELSE IF ~first /\ c # 44 THEN ParseErr("expected comma or closing brace")
        ELSE IF At(s, q) = 125 THEN ParseErr("trailing comma")
        ELSE IF At(s, q) = EOF THEN ParseErr("EOF while parsing a value")
        ELSE IF At(s, q) # 34 THEN ParseErr("key must be a string")
        ELSE LET k == ParseStr(s, q + 1, <<>>) IN
        IF ~k.ok THEN k
        ELSE LET colon == SkipWhitespace(s, k.next) IN
        IF At(s, colon) = EOF THEN ParseErr("EOF while parsing an object")
        ELSE IF At(s, colon) # 58 THEN ParseErr("expected colon")
        ELSE LET v == ParseValue(s, colon + 1, depth) IN
        IF ~v.ok THEN v
        ELSE ParseMembers(s, v.next, FALSE, MapInsert(acc, k.v.s, v.v), depth)

\* from_slice: one value, then nothing but white space.
from_slice(data) ==
    LET r == ParseValue(data, 1, 0) IN
    IF ~r.ok THEN r
    ELSE IF SkipWhitespace(data, r.next) <= Len(data) THEN ParseErr("trailing characters")
    ELSE r

\* ------------------------------------------------------------------------
\* convert::decode_env_from_json(secret_name, value)
\* ------------------------------------------------------------------------

NoError == [kind |-> "", cause |-> ""]

Ok(val) == [ok |-> TRUE, val |-> val, err |-> NoError]

Err(kind, cause) == [ok |-> FALSE, val |-> <<>>, err |-> [kind |-> kind, cause |-> cause]]

RECURSIVE StrLess(_, _)
\* Byte-wise order of two strings, the order of the map's keys.
StrLess(a, b) ==
    IF a = <<>> THEN b # <<>>
    ELSE IF b = <<>> THEN FALSE
    ELSE IF Head(a) # Head(b) THEN Head(a) < Head(b)
    ELSE StrLess(Tail(a), Tail(b))

RECURSIVE MapEntries(_, _)
\* The entries of a map in the order its iterator yields them.
MapEntries(m, keys) ==
    IF keys = {} THEN <<>>
    ELSE LET k == CHOOSE k \in keys : \A o \in keys \ {k} : StrLess(k, o)
         IN  <<[key |-> k, value |-> m[k]]>> \o MapEntries(m, keys \ {k})

\* An object of string values decodes to its (key, value) pairs; anything
\* else is a decoding error that names the secret.
decode_env_from_json(secret_name, value) ==
    IF value.t # "Object" THEN Err("DecodeError", secret_name)
    ELSE LET entries == MapEntries(value.m, DOMAIN value.m) IN
         IF \E i \in 1..Len(entries) : entries[i].value.t # "String"
         THEN Err("DecodeError", secret_name)
         ELSE Ok([i \in 1..Len(entries) |-> <<entries[i].key, entries[i].value.s>>])

\* ------------------------------------------------------------------------
\* GoogleVault: to_token, the channel, the interceptor, the request
\* ------------------------------------------------------------------------

\* to_token that never reads the configured file.
to_token_ambient_only(v, ambient) ==
    IF ambient = "valid"
    THEN [ok |-> TRUE, token |-> Some([source |-> None]), err |-> NoError]
    ELSE [ok |-> FALSE, token |-> None,
          err |-> [kind |-> "ConfigurationError", cause |-> ambient]]

\* GoogleVault::to_token: from the credentials file when one is configured,
\* else by ambient discovery; a failure is a ConfigurationError.
to_token(v, ambient) ==
    LET status == IF v.credentials_file # None
                  THEN FileStatus(v.credentials_file[1])
                  ELSE ambient
    IN  IF status = "valid"
        THEN [ok |-> TRUE, token |-> Some([source |-> v.credentials_file]), err |-> NoError]
        ELSE [ok |-> FALSE, token |-> None,
              err |-> [kind |-> "ConfigurationError", cause |-> status]]

\* Channel::from_static(..).tls_config(tls_config).map_err(TonicError)?:
\* the endpoint with the compiled-in certificates, or a TonicError.
tls_config(outcome) ==
    IF outcome = "configured"
    THEN [ok |-> TRUE, err |-> NoError]
    ELSE [ok |-> FALSE, err |-> [kind |-> "TonicError", cause |-> outcome]]

\* .connect().await.map_err(TonicError)?: the channel, or a TonicError.
connect_channel(outcome, id) ==
    IF outcome = "connected"
    THEN [ok |-> TRUE, channel |-> Some(id), err |-> NoError]
    ELSE [ok |-> FALSE, channel |-> None,
          err |-> [kind |-> "TonicError", cause |-> outcome]]

\* MetadataValue::from_str accepts the tab and every byte from 32 up but
\* 127 (DEL).
MetadataValueValid(bytes) ==
    \A i \in 1..Len(bytes) : (bytes[i] >= 32 /\ bytes[i] # 127) \/ bytes[i] = 9

MetadataInsert(md, k, v) ==
    [x \in (DOMAIN md) \cup {k} |-> IF x = k THEN v ELSE md[x]]

\* An interceptor that lets the request through when rendering fails.
InterceptorForwardsBare(rendered, req) ==
    IF ~rendered.ok \/ ~MetadataValueValid(rendered.bytes)
    THEN [ok |-> TRUE, req |-> req, status |-> "OK"]
    ELSE [ok |-> TRUE,
          req |-> [req EXCEPT !.metadata =
                       MetadataInsert(req.metadata, "authorization", rendered.bytes)],
          status |-> "OK"]

\* The interceptor closure of to_client, on one outgoing request; rendered
\* is what token.header_value() answers for this request.
Interceptor(rendered, req) ==
    IF ~rendered.ok
    THEN [ok |-> FALSE, req |-> req, status |-> "UNKNOWN"]
    ELSE IF ~MetadataValueValid(rendered.bytes)
    THEN [ok |-> FALSE, req |-> req, status |-> "UNKNOWN"]
    ELSE [ok |-> TRUE,
          req |-> [req EXCEPT !.metadata =
                       MetadataInsert(req.metadata, "authorization", rendered.bytes)],
          status |-> "OK"]

\* The two format arguments in the wrong order.
RequestNameSwapped(project, secret_name) ==
    "projects/" \o secret_name \o "/secrets/" \o project \o "/versions/latest"

\* format!("projects/{}/secrets/{}/versions/latest", project, secret_name)
RequestName(project, secret_name) ==
    "projects/" \o project \o "/secrets/" \o secret_name \o "/versions/latest"

AccessSecretVersionRequest(project, secret_name) ==
    [rpc |-> "AccessSecretVersion",
     name |-> RequestName(project, secret_name),
     metadata |-> <<>>]

\* A mapping that drops the status it was given.
StatusErrorLosesStatus(status) == Err("SecretManagerError", "UNKNOWN")

\* .map_err(GoogleError::SecretManagerError)? on the answer of the call.
StatusError(status) == Err("SecretManagerError", status)

\* A finish that reads an absent payload as zero bytes of data.
FinishDownloadAbsentAsEmpty(secret_name, response) ==
    LET data == IF response.payload = None THEN <<>> ELSE response.payload[1]
        value == from_slice(data)
    IN  IF ~value.ok
        THEN [result |-> Err("JsonError", value.err),
              extracted |-> 1, parsed |-> 1, decoded |-> 0]
        ELSE [result |-> decode_env_from_json(secret_name, value.v),
              extracted |-> 1, parsed |-> 1, decoded |-> 1]

\* A finish that loses the first decoded pair.
FinishDownloadDropsPair(secret_name, response) ==
    IF response.payload = None
    THEN [result |-> Err("EmptySecret", ""), extracted |-> 1, parsed |-> 0, decoded |-> 0]
    ELSE LET value == from_slice(response.payload[1]) IN
         IF ~value.ok
         THEN [result |-> Err("JsonError", value.err),
               extracted |-> 1, parsed |-> 1, decoded |-> 0]
         ELSE LET d == decode_env_from_json(secret_name, value.v) IN
              [result |-> IF d.ok /\ d.val # <<>> THEN Ok(Tail(d.val)) ELSE d,
               extracted |-> 1, parsed |-> 1, decoded |-> 1]

\* download_json after the answer arrived: the payload, the JSON value, the
\* decoded pairs, and which of the three steps ran.
FinishDownload(secret_name, response) ==
    IF response.payload = None
    THEN [result |-> Err("EmptySecret", ""), extracted |-> 1, parsed |-> 0, decoded |-> 0]
    ELSE LET value == from_slice(response.payload[1]) IN
         IF ~value.ok
         THEN [result |-> Err("JsonError", value.err),
               extracted |-> 1, parsed |-> 1, decoded |-> 0]
         ELSE [result |-> decode_env_from_json(secret_name, value.v),
               extracted |-> 1, parsed |-> 1, decoded |-> 1]

\* ------------------------------------------------------------------------
\* State
\* ------------------------------------------------------------------------

VARIABLES
    vault,          \* the GoogleVault: credentials_file, project
    calls,          \* per Vault call: its position, locals and what it observed
    channelBuilds   \* connect() calls the process has made

vars == <<vault, calls, channelBuilds>>

\* How often a call ran each step: the endpoint with its TLS configuration,
\* connect(), to_token, the remote call, the payload, the parser, the decoder.
NoCounts ==
    [endpoint |-> 0, channel |-> 0, token |-> 0, rpc |-> 0,
     extract |-> 0, parse |-> 0, decode |-> 0]

NoEnv == [tls |-> "", conn |-> "", ambient |-> "", hdr |-> None, resp |-> None]

IdleCall ==
    [op |-> "none", pc |-> "idle", arg |-> "",
     channel |-> None, client |-> None,
     issued |-> <<>>, sent |-> <<>>, response |-> None, result |-> None,
     env |-> NoEnv, n |-> NoCounts]

\* GoogleConfig::into_vault
into_vault(credentials_file, project) ==
    [credentials_file |-> credentials_file, project |-> project]

Init ==
    /\ vault \in { into_vault(f, p) :
                     f \in {None} \cup {Some(path) : path \in CredentialPaths},
                     p \in Projects }
    /\ calls = [c \in Calls |-> IdleCall]
    /\ channelBuilds = 0

\* Calls are taken in order of their index; they then run concurrently.
CanStart(c) ==
    /\ calls[c].pc = "idle"
    /\ \A d \in Calls : d < c => calls[d].pc # "idle"

\* ------------------------------------------------------------------------
\* Vault::download_prefixed
\* ------------------------------------------------------------------------

\* todo!(): the call panics, it returns nothing.
DownloadPrefixed(c, prefix) ==
    /\ CanStart(c)
    /\ calls' = [calls EXCEPT ![c] =
                   [@ EXCEPT !.op = "download_prefixed", !.arg = prefix,
                             !.pc = "panicked"]]
    /\ UNCHANGED <<vault, channelBuilds>>

\* ------------------------------------------------------------------------
\* Vault::download_json
\* ------------------------------------------------------------------------

\* Entry: the call is about to run self.to_client().
DownloadJson(c, secret_name) ==
    /\ CanStart(c)
    /\ calls' = [calls EXCEPT ![c] =
                   [@ EXCEPT !.op = "download_json", !.arg = secret_name,
                             !.pc = "to_client"]]
    /\ UNCHANGED <<vault, channelBuilds>>

\* A to_client that keeps one channel for the vault: a call reuses the
\* channel an earlier call connected instead of building its own.
ConnectCached(c, tls) ==
    /\ calls[c].pc = "to_client"
    /\ LET r == tls_config(tls)
           seen == [calls[c] EXCEPT !.env.tls = tls, !.n.endpoint = @ + 1]
           cached == {d \in Calls : calls[d].channel # None}
       IN  IF ~r.ok
           THEN /\ calls' = [calls EXCEPT ![c] =
                        [seen EXCEPT !.pc = "done",
                                     !.result = Some([ok |-> FALSE, val |-> <<>>, err |-> r.err])]]
                /\ UNCHANGED channelBuilds
           ELSE IF cached # {}
           THEN /\ calls' = [calls EXCEPT ![c] =
                        [seen EXCEPT !.pc = "to_token", !.env.conn = "connected",
                                     !.channel = calls[CHOOSE d \in cached : TRUE].channel]]
                /\ UNCHANGED channelBuilds
           ELSE /\ calls' = [calls EXCEPT ![c] =
                        [seen EXCEPT !.pc = "connecting", !.n.channel = @ + 1]]
                /\ channelBuilds' = channelBuilds + 1
    /\ UNCHANGED vault

\* to_client up to its first await: the endpoint with the TLS configuration
\* of the compiled-in certificates, which ends the call with a TonicError
\* when it fails, and else the call of connect().
Connect(c, tls) ==
    /\ calls[c].pc = "to_client"
    /\ LET r == tls_config(tls)
           seen == [calls[c] EXCEPT !.env.tls = tls, !.n.endpoint = @ + 1]
       IN  IF ~r.ok
           THEN /\ calls' = [calls EXCEPT ![c] =
                        [seen EXCEPT !.pc = "done",
                                     !.result = Some([ok |-> FALSE, val |-> <<>>, err |-> r.err])]]
                /\ UNCHANGED channelBuilds
           ELSE /\ calls' = [calls EXCEPT ![c] =
                        [seen EXCEPT !.pc = "connecting", !.n.channel = @ + 1]]
                /\ channelBuilds' = channelBuilds + 1
    /\ UNCHANGED vault

\* connect().await answers. The channel a call builds is a new object,
\* named here after the call.
Connected(c, outcome) ==
    /\ calls[c].pc = "connecting"
    /\ LET r == connect_channel(outcome, c)
           seen == [calls[c] EXCEPT !.env.conn = outcome]
       IN  calls' = [calls EXCEPT ![c] =
                IF r.ok
                THEN [seen EXCEPT !.pc = "to_token", !.channel = r.channel]
                ELSE [seen EXCEPT !.pc = "done", !.result = Some([ok |-> FALSE, val |-> <<>>, err |-> r.err])]]
    /\ UNCHANGED <<vault, channelBuilds>>

\* A to_token step that moves the path out of the vault as it reads it.
ResolveTokenTakesFile(c, ambient) ==
    /\ calls[c].pc = "to_token"
    /\ LET r == to_token(vault, ambient)
           seen == [calls[c] EXCEPT
                      !.env.ambient = IF vault.credentials_file = None THEN ambient ELSE "unused",
                      !.n.token = @ + 1]
       IN  calls' = [calls EXCEPT ![c] =
                IF r.ok
                THEN [seen EXCEPT !.pc = "rpc",
                                  !.client = Some([channel |-> calls[c].channel[1],
                                                   token |-> r.token[1]])]
                ELSE [seen EXCEPT !.pc = "done", !.result = Some([ok |-> FALSE, val |-> <<>>, err |-> r.err])]]
    /\ vault' = [vault EXCEPT !.credentials_file = None]
    /\ UNCHANGED channelBuilds

\* to_client, second half: self.to_token()? and the client that owns the
\* channel and the token.
ResolveToken(c, ambient) ==
    /\ calls[c].pc = "to_token"
    /\ LET r == to_token(vault, ambient)
           seen == [calls[c] EXCEPT
                      !.env.ambient = IF vault.credentials_file = None THEN ambient ELSE "unused",
                      !.n.token = @ + 1]
       IN  calls' = [calls EXCEPT ![c] =
                IF r.ok
                THEN [seen EXCEPT !.pc = "rpc",
                                  !.client = Some([channel |-> calls[c].channel[1],
                                                   token |-> r.token[1]])]
                ELSE [seen EXCEPT !.pc = "done", !.result = Some([ok |-> FALSE, val |-> <<>>, err |-> r.err])]]
    /\ UNCHANGED <<vault, channelBuilds>>

\* client.access_secret_version(Request::new(..)) up to its await: the
\* interceptor runs on the request, and a request it lets through goes
\* out on the channel.
AccessSecretVersion(c, rendered) ==
    /\ calls[c].pc = "rpc"
    /\ LET req == AccessSecretVersionRequest(vault.project, calls[c].arg)
           i == Interceptor(rendered, req)
           seen == [calls[c] EXCEPT !.env.hdr = Some(rendered), !.n.rpc = @ + 1,
                                    !.issued = Append(@, req)]
       IN  calls' = [calls EXCEPT ![c] =
                IF ~i.ok
                THEN [seen EXCEPT !.pc = "done", !.result = Some(StatusError(i.status))]
                ELSE [seen EXCEPT !.pc = "awaiting", !.sent = Append(@, i.req)]]
    /\ UNCHANGED <<vault, channelBuilds>>

\* The service answers the request the call awaits.
Answered(c, resp) ==
    /\ calls[c].pc = "awaiting"
    /\ LET seen == [calls[c] EXCEPT !.env.resp = Some(resp)]
       IN  calls' = [calls EXCEPT ![c] =
                IF resp.status # "OK"
                THEN [seen EXCEPT !.pc = "done", !.result = Some(StatusError(resp.status))]
                ELSE [seen EXCEPT !.pc = "responded", !.response = Some(resp)]]
    /\ UNCHANGED <<vault, channelBuilds>>

\* The rest of download_json: payload, serde_json::from_slice, decoding.
\* The call after download_json returned f: its result, and the steps that ran.
Finished(call, f) ==
    [call EXCEPT !.pc = "done", !.result = Some(f.result),
                 !.n.extract = @ + f.extracted,
                 !.n.parse = @ + f.parsed,
                 !.n.decode = @ + f.decoded]

Finish(c) ==
    /\ calls[c].pc = "responded"
    /\ calls' = [calls EXCEPT ![c] =
            Finished(@, FinishDownload(calls[c].arg, calls[c].response[1]))]
    /\ UNCHANGED <<vault, channelBuilds>>

Next ==
    \E c \in Calls :
        \/ \E prefix \in Prefixes : DownloadPrefixed(c, prefix)
        \/ \E secret_name \in SecretNames : DownloadJson(c, secret_name)
        \/ \E tls \in TlsOutcomes : Connect(c, tls)
        \/ \E outcome \in ChannelOutcomes : Connected(c, outcome)
        \/ \E ambient \in AmbientOutcomes : ResolveToken(c, ambient)
        \/ \E rendered \in HeaderOutcomes : AccessSecretVersion(c, rendered)
        \/ \E resp \in Responses : Answered(c, resp)
        \/ Finish(c)

Spec == Init /\ [][Next]_vars

\* ------------------------------------------------------------------------
\* Properties
\* ------------------------------------------------------------------------

JsonCalls == {c \in Calls : calls[c].op = "download_json"}

Done(c) == calls[c].pc = "done"

\* The service's answer to the call's request, when there was one.
HasAnswer(c) == calls[c].env.resp # None

Answer(c) == calls[c].env.resp[1]

BadCredentialFile ==
    /\ vault.credentials_file # None
    /\ vault.credentials_file[1] \in {"missing.json", "malformed.json"}

\* The interceptor's verdict on what header_value() answered.
Rejects(rendered) ==
    \/ ~rendered.ok
    \/ \E i \in 1..Len(rendered.bytes) :
          \/ rendered.bytes[i] = 127
          \/ rendered.bytes[i] < 32 /\ rendered.bytes[i] # 9

\* The resource name the service expects, spelled out per input.
ExpectedName(project, secret_name) ==
    CASE project = "proj-1" /\ secret_name = "db-password" ->
             "projects/proj-1/secrets/db-password/versions/latest"
      [] project = "proj-1" /\ secret_name = "api" ->
             "projects/proj-1/secrets/api/versions/latest"

\* What download_json returns for a payload that parsed to the given value.
PassesThrough(c, value) ==
    value.ok => calls[c].result[1] = decode_env_from_json(calls[c].arg, value.v)

\* C1: a call answered OK with a present payload of well-formed JSON
\* returns exactly what decode_env_from_json(secret_name, parsed payload)
\* yields for that payload.
C1_PassThrough ==
    \A c \in JsonCalls :
        (/\ Done(c)
         /\ HasAnswer(c)
         /\ Answer(c).status = "OK"
         /\ Answer(c).payload # None)
        => PassesThrough(c, from_slice(Answer(c).payload[1]))

C1_Witness ==
    \E c \in JsonCalls :
        /\ Done(c)
        /\ HasAnswer(c)
        /\ Answer(c).payload = Some(PayloadTwo)
        /\ calls[c].result[1].ok
        /\ calls[c].result[1].val = << <<(<<65>>), (<<120>>)>>, <<(<<66>>), (<<121, 9>>)>> >>

\* C2: a call answered OK without a payload fails with EmptySecret, never
\* succeeds, and runs neither the JSON parser nor the decoder.
C2_AbsentPayloadIsEmptySecret ==
    \A c \in JsonCalls :
        (HasAnswer(c) /\ Answer(c).status = "OK" /\ Answer(c).payload = None)
        => /\ calls[c].n.parse = 0
           /\ calls[c].n.decode = 0
           /\ Done(c) => /\ ~calls[c].result[1].ok
                         /\ calls[c].result[1].err.kind = "EmptySecret"

C2_Witness ==
    \E c \in JsonCalls :
        /\ Done(c)
        /\ HasAnswer(c)
        /\ Answer(c).status = "OK"
        /\ Answer(c).payload = None
        /\ calls[c].n.extract = 1

\* C3: a call answered OK with a present payload of zero bytes fails with
\* EmptySecret.
C3_EmptyDataIsEmptySecret ==
    \A c \in JsonCalls :
        (Done(c) /\ HasAnswer(c) /\ Answer(c).status = "OK"
                 /\ Answer(c).payload = Some(PayloadEmptyData))
        => /\ ~calls[c].result[1].ok
           /\ calls[c].result[1].err.kind = "EmptySecret"

\* C4: a call answered with a non-success status fails with
\* SecretManagerError carrying that status, and extracts, parses and
\* decodes nothing.
C4_StatusIsSecretManagerError ==
    \A c \in JsonCalls :
        (HasAnswer(c) /\ Answer(c).status # "OK")
        => /\ Done(c)
           /\ calls[c].result[1] = Err("SecretManagerError", Answer(c).status)
           /\ calls[c].n.extract = 0
           /\ calls[c].n.parse = 0
           /\ calls[c].n.decode = 0

C4_Witness ==
    \E c \in JsonCalls :
        /\ Done(c)
        /\ HasAnswer(c)
        /\ Answer(c).status = "NOT_FOUND"

\* C5 as stated: with a missing or malformed credential file the call
\* fails with ConfigurationError and no channel is ever built.
C5_NoChannelBeforeConfigurationError ==
    \A c \in JsonCalls :
        (BadCredentialFile /\ Done(c))
        => /\ calls[c].result[1].err.kind = "ConfigurationError"
           /\ calls[c].n.channel = 0

\* C5 amended: with a missing or malformed credential file the call never
\* sends the request and never succeeds; it resolves the credential only
\* after connect() answered: it fails with ConfigurationError once the
\* channel is connected, and with TonicError, the credential file unread,
\* when the TLS configuration fails (no connect() then) or the channel
\* cannot be connected.
C5_ChannelThenConfigurationError ==
    \A c \in JsonCalls :
        BadCredentialFile
        => /\ calls[c].n.rpc = 0
           /\ calls[c].sent = <<>>
           /\ calls[c].n.token <= calls[c].n.channel
           /\ Done(c) =>
                /\ ~calls[c].result[1].ok
                /\ calls[c].n.channel = IF calls[c].env.tls = "configured" THEN 1 ELSE 0
                /\ calls[c].env.conn = "connected"
                     => /\ calls[c].n.token = 1
                        /\ calls[c].result[1].err.kind = "ConfigurationError"
                /\ calls[c].env.conn # "connected"
                     => /\ calls[c].n.token = 0
                        /\ calls[c].result[1].err.kind = "TonicError"

C5_Witness ==
    \E c \in JsonCalls :
        /\ BadCredentialFile
        /\ Done(c)
        /\ calls[c].n.channel = 1
        /\ calls[c].channel # None
        /\ calls[c].result[1].err.kind = "ConfigurationError"

\* C6: download_prefixed ends by returning an UnimplementedError value;
\* it never ends in a panic.
C6_PrefixedReturnsUnimplemented ==
    \A c \in Calls :
        calls[c].op = "download_prefixed"
        => /\ calls[c].pc = "done"
           /\ calls[c].result # None
           /\ calls[c].result[1].err.kind = "UnimplementedError"

\* C7: within a call the construction of the channel is attempted exactly
\* once (connect() is called once unless the TLS configuration fails), every
\* later step runs at most once, and a step runs only if the one before
\* it ran; over the calls made so far there is one connect() per call
\* that got its endpoint configured, every call that built a client
\* connected a channel of its own, and no two calls hold the same channel.
C7_OneShotNoCaching ==
    /\ \A c \in JsonCalls :
          /\ calls[c].n.endpoint = IF calls[c].pc = "to_client" THEN 0 ELSE 1
          /\ calls[c].n.channel = IF calls[c].env.tls = "configured" THEN 1 ELSE 0
          /\ calls[c].n.token <= calls[c].n.channel
          /\ calls[c].n.rpc <= calls[c].n.token
          /\ calls[c].n.extract <= calls[c].n.rpc
          /\ calls[c].n.parse <= calls[c].n.extract
          /\ calls[c].n.decode <= calls[c].n.parse
          /\ Len(calls[c].issued) = calls[c].n.rpc
          /\ calls[c].client # None
             => /\ calls[c].n.channel = 1
                /\ calls[c].client[1].channel = calls[c].channel[1]
    /\ channelBuilds = Cardinality({c \in JsonCalls : calls[c].env.tls = "configured"})
    /\ \A c, d \in JsonCalls :
          (c # d /\ calls[c].channel # None /\ calls[d].channel # None)
          => calls[c].channel # calls[d].channel

C7_Witness ==
    /\ channelBuilds = 2
    /\ \E c, d \in JsonCalls :
          /\ c # d
          /\ Done(c) /\ Done(d)
          /\ calls[c].client # None /\ calls[d].client # None

\* C8 as stated: a call that got past client construction has sent
\* exactly one AccessSecretVersion request, named after the vault's
\* project and the secret, version latest.
C8_ExactlyOneRequestSent ==
    \A c \in JsonCalls :
        (Done(c) /\ calls[c].client # None)
        => /\ Len(calls[c].sent) = 1
           /\ calls[c].sent[1].rpc = "AccessSecretVersion"
           /\ calls[c].sent[1].name = ExpectedName(vault.project, calls[c].arg)

\* C8 amended: a call that got past client construction has issued exactly
\* one AccessSecretVersion request on its client, with that name; the
\* request went out once unless the interceptor rejected it, and then no
\* request went out; nothing else is issued or sent.
C8_OneRequestIssued ==
    \A c \in JsonCalls :
        /\ calls[c].pc \in {"awaiting", "responded", "done"} /\ calls[c].client # None
           => /\ Len(calls[c].issued) = 1
              /\ Len(calls[c].sent) = IF Rejects(calls[c].env.hdr[1]) THEN 0 ELSE 1
        /\ \A i \in 1..Len(calls[c].issued) :
              /\ calls[c].issued[i].rpc = "AccessSecretVersion"
              /\ calls[c].issued[i].name = ExpectedName(vault.project, calls[c].arg)
        /\ \A i \in 1..Len(calls[c].sent) :
              /\ calls[c].sent[i].rpc = "AccessSecretVersion"
              /\ calls[c].sent[i].name = ExpectedName(vault.project, calls[c].arg)

C8_Witness ==
    \E c \in JsonCalls :
        /\ Done(c)
        /\ Len(calls[c].sent) = 1
        /\ calls[c].sent[1].name = "projects/proj-1/secrets/db-password/versions/latest"

\* C9: a request whose credential does not render fails with status
\* UNKNOWN and is not sent, and the client is left as it was; any other
\* request is sent with authorization set to the rendered credential and
\* nothing else changed; no request is sent without authorization.
C9_Interceptor ==
    \A c \in JsonCalls :
        /\ calls[c].n.rpc = 1 =>
             LET rendered == calls[c].env.hdr[1] IN
             IF Rejects(rendered)
             THEN /\ calls[c].sent = <<>>
                  /\ Done(c)
                  /\ calls[c].result[1] = Err("SecretManagerError", "UNKNOWN")
                  /\ calls[c].client # None
                  /\ calls[c].client[1].channel = calls[c].channel[1]
             ELSE /\ Len(calls[c].sent) = 1
                  /\ calls[c].sent[1].rpc = calls[c].issued[1].rpc
                  /\ calls[c].sent[1].name = calls[c].issued[1].name
                  /\ DOMAIN calls[c].sent[1].metadata =
                         (DOMAIN calls[c].issued[1].metadata) \cup {"authorization"}
                  /\ calls[c].sent[1].metadata["authorization"] = rendered.bytes
        /\ \A i \in 1..Len(calls[c].sent) :
              "authorization" \in DOMAIN calls[c].sent[i].metadata

C9_Witness ==
    \E c, d \in JsonCalls :
        /\ calls[c].n.rpc = 1
        /\ calls[c].env.hdr = Some([ok |-> TRUE, bytes |-> HeaderBad])
        /\ calls[c].result[1].err.cause = "UNKNOWN"
        /\ Len(calls[d].sent) = 1
        /\ calls[d].sent[1].metadata["authorization"] = HeaderGood

\* What one download_json call returns when it runs alone on a vault and
\* meets the given environment answers.
SoloOutcome(v, secret_name, env) ==
    IF env.tls # "configured" THEN Err("TonicError", env.tls)
    ELSE IF env.conn # "connected" THEN Err("TonicError", env.conn)
    ELSE LET cred == IF v.credentials_file = None THEN env.ambient
                     ELSE FileStatus(v.credentials_file[1]) IN
    IF cred # "valid" THEN Err("ConfigurationError", cred)
    ELSE IF Rejects(env.hdr[1]) THEN Err("SecretManagerError", "UNKNOWN")
    ELSE IF env.resp[1].status # "OK" THEN Err("SecretManagerError", env.resp[1].status)
    ELSE IF env.resp[1].payload = None THEN Err("EmptySecret", "")
    ELSE LET value == from_slice(env.resp[1].payload[1]) IN
    IF ~value.ok THEN Err("JsonError", value.err)
    ELSE decode_env_from_json(secret_name, value.v)

C10_Isolated ==
    \A c \in JsonCalls :
        /\ Done(c) => calls[c].result[1] = SoloOutcome(vault, calls[c].arg, calls[c].env)
        /\ calls[c].client # None
           => /\ calls[c].client[1].channel = c
              /\ calls[c].client[1].token.source = vault.credentials_file

\* C10: concurrent calls share no mutable state: no step changes the
\* vault, a call's client holds the call's own channel and token, and
\* under every interleaving a call returns what it returns alone on the
\* same environment answers.
C10_NoSharedState ==
    /\ []C10_Isolated
    /\ [][vault' = vault]_vars

C10_Witness ==
    \E c, d \in JsonCalls :
        /\ c < d
        /\ calls[c].pc = "awaiting"
        /\ Done(d)
        /\ calls[d].result[1].ok
        /\ calls[d].arg # calls[c].arg

====
